---- MODULE Spec2Model ----
(***************************************************************************)
(* A model of api/etherdelta.py: the order value types, the EtherDelta     *)
(* client facade and its lazily initialised set of on-chain orders,        *)
(* together with the collaborators the client talks to (the exchange       *)
(* contract, the chain's event delivery, the signer and the relay).        *)
(***************************************************************************)
EXTENDS Bags, FiniteSets, Integers, Sequences, TLC

(***************************************************************************)
(* Bounds of the model.                                                    *)
(***************************************************************************)
\* Largest amount_get an order is created with (amounts are 0..MaxAmount).
MaxAmount == 1
\* Most "Order" events the chain emits in one behaviour.
MaxLog == 1

(***************************************************************************)
(* Python values.  Every value carries its class in "cls"; an attribute    *)
(* exists exactly when the record has that field (hasattr).                *)
(***************************************************************************)
NoneVal == [cls |-> "NoneType"]

Address(a) == [cls |-> "Address", address |-> a]

Wad(v) == [cls |-> "Wad", value |-> v]

PyInt(n) == [cls |-> "int", int |-> n]

PyStr(s) == [cls |-> "str", str |-> s]

HasAttr(x, name) == name \in DOMAIN x

IsInstance(x, classes) == x.cls \in classes

\* A nonce is an unsigned integer of up to 33 bits kept as two halves,
\* value = hi * 2^16 + lo, because 2^32 - 1 does not fit TLC's 32-bit signed integers.
HalfWord == 65536

Nonce(hi, lo) == [hi |-> hi, lo |-> lo]

NonceLeq(a, b) == a.hi < b.hi \/ (a.hi = b.hi /\ a.lo <= b.lo)

\* 1, 2^32 - 1, and the neighbours 0 and 2^32 just outside that range.
NonceOne == Nonce(0, 1)
NonceMax == Nonce(HalfWord - 1, HalfWord - 1)
NonceSample == {Nonce(0, 0), NonceOne, NonceMax, Nonce(HalfWord, 0)}

\* random.randint(a, b): any integer N with a <= N <= b.
RandInt(a, b) == {n \in NonceSample : NonceLeq(a, n) /\ NonceLeq(n, b)}

\* EtherDelta.random_nonce drawing from 0 .. 2^32.
random_nonce_wide == RandInt(Nonce(0, 0), Nonce(HalfWord, 0))

\* EtherDelta.random_nonce
random_nonce == RandInt(NonceOne, NonceMax)

(***************************************************************************)
(* The order model.                                                        *)
(***************************************************************************)
\* Order.__init__: the five common fields; nonce and user are None.
Order(token_get, amount_get, token_give, amount_give, expires) ==
    [cls |-> "Order", token_get |-> token_get, amount_get |-> amount_get,
     token_give |-> token_give, amount_give |-> amount_give,
     expires |-> expires, nonce |-> NoneVal, user |-> NoneVal]

OnChainOrder(token_get, amount_get, token_give, amount_give, expires, nonce, user) ==
    [cls |-> "OnChainOrder", token_get |-> token_get, amount_get |-> amount_get,
     token_give |-> token_give, amount_give |-> amount_give,
     expires |-> expires, nonce |-> nonce, user |-> user]

OffChainOrder(token_get, amount_get, token_give, amount_give, expires, nonce, user, v, r, s) ==
    [cls |-> "OffChainOrder", token_get |-> token_get, amount_get |-> amount_get,
     token_give |-> token_give, amount_give |-> amount_give,
     expires |-> expires, nonce |-> nonce, user |-> user,
     v |-> v, r |-> r, s |-> s]

\* LogOrder.__init__: wraps the raw arguments of an "Order" event.
LogOrder(args) ==
    [cls |-> "LogOrder", token_get |-> Address(args.tokenGet),
     amount_get |-> Wad(args.amountGet), token_give |-> Address(args.tokenGive),
     amount_give |-> Wad(args.amountGive), expires |-> args.expires,
     nonce |-> args.nonce, user |-> Address(args.user)]

\* LogOrder.to_order
to_order(log) ==
    OnChainOrder(log.token_get, log.amount_get, log.token_give, log.amount_give,
                 log.expires, log.nonce, log.user)

\* OnChainOrder.__eq__ testing for the class of the off-chain order, as the
\* method it was written after does.
OnChainOrderEqWrongClass(self, other) ==
    /\ IsInstance(other, {"OffChainOrder"})
    /\ self.token_get = other.token_get
    /\ self.amount_get = other.amount_get
    /\ self.token_give = other.token_give
    /\ self.amount_give = other.amount_give
    /\ self.expires = other.expires
    /\ self.nonce = other.nonce
    /\ self.user = other.user

\* OnChainOrder.__eq__ as it would be with the comparison of user left out.
OnChainOrderEqFewFields(self, other) ==
    /\ IsInstance(other, {"OnChainOrder"})
    /\ self.token_get = other.token_get
    /\ self.amount_get = other.amount_get
    /\ self.token_give = other.token_give
    /\ self.amount_give = other.amount_give
    /\ self.expires = other.expires
    /\ self.nonce = other.nonce

\* OnChainOrder.__eq__
OnChainOrderEq(self, other) ==
    /\ IsInstance(other, {"OnChainOrder"})
    /\ self.token_get = other.token_get
    /\ self.amount_get = other.amount_get
    /\ self.token_give = other.token_give
    /\ self.amount_give = other.amount_give
    /\ self.expires = other.expires
    /\ self.nonce = other.nonce
    /\ self.user = other.user

\* Width of a hash value of the model (Python's is a machine word).
HashMod == 64

\* hash() of a string: a fixed code per address string, cut to the width.
StrHash(s) ==
    (CASE s = "ETH"   -> 0
       [] s = "TKN"   -> 17
       [] s = "me"    -> 5
       [] s = "other" -> 69
       [] OTHER       -> 1) % HashMod

\* hash() of a field value that is an object: an Address or a Wad, or the
\* string or number passed in its place.
FieldHash(x) ==
    CASE HasAttr(x, "address") -> StrHash(x.address)
      [] HasAttr(x, "str")     -> StrHash(x.str)
      [] HasAttr(x, "value")   -> x.value % HashMod
      [] HasAttr(x, "int")     -> x.int % HashMod
      [] OTHER                 -> 0

\* hash() of a block number and of a nonce.
IntHash(n) == n % HashMod

NonceHash(n) == ((n.hi % HashMod) * (HalfWord % HashMod) + n.lo) % HashMod

\* hash() of a tuple, given its elements' hashes: a fold into one word.
RECURSIVE TupleHash(_)
TupleHash(hashes) ==
    IF hashes = <<>> THEN 7
    ELSE (TupleHash(SubSeq(hashes, 1, Len(hashes) - 1)) * 31 + hashes[Len(hashes)]) % HashMod

\* OnChainOrder.__hash__
OnChainOrderHash(self) ==
    TupleHash(<<FieldHash(self.token_get), FieldHash(self.amount_get),
                FieldHash(self.token_give), FieldHash(self.amount_give),
                IntHash(self.expires), NonceHash(self.nonce), FieldHash(self.user)>>)

(***************************************************************************)
(* A Python set of orders.  Its elements are kept as a bag, so that an     *)
(* element stored twice would show: set.add stores x unless an element     *)
(* with the same hash that is == x is already there.                       *)
(***************************************************************************)
PySet(items) == [cls |-> "set", items |-> items]

PySetContains(S, x) ==
    \E e \in BagToSet(S.items) :
        OnChainOrderHash(e) = OnChainOrderHash(x) /\ OnChainOrderEq(e, x)

\* set.add(x)
PySetAdd(S, x) == IF PySetContains(S, x) THEN S ELSE PySet(S.items (+) SetToBag({x}))

\* len(S)
PySetLen(S) == BagCardinality(S.items)

\* list(S): the elements in no particular order, kept as a bag
PyList(S) == [cls |-> "list", items |-> S.items]

RECURSIVE PySetAddAll(_, _)
PySetAddAll(S, xs) ==
    IF xs = <<>> THEN S ELSE PySetAddAll(PySetAdd(S, Head(xs)), Tail(xs))

(***************************************************************************)
(* State.                                                                  *)
(***************************************************************************)
VARIABLES
    onchain_orders,  \* self._onchain_orders: NoneVal, or the set of tracked orders
    order_handlers,  \* number of handlers registered with on_order
    order_log,       \* the contract's "Order" events, oldest first (raw arguments)
    order_fills,     \* the contract's orderFills, per order placed
    undelivered,     \* positions in order_log not yet delivered to the handlers
    last_call,       \* the last call of the client: what it returned and sent
    query            \* the active_onchain_orders call under way: its position and locals

vars == <<onchain_orders, order_handlers, order_log, order_fills, undelivered, last_call, query>>

\* No active_onchain_orders call under way; `backfills` counts the past_order
\* fetches whose events were added to the set so far.
QueryIdle(backfills) ==
    [pc |-> "idle", first |-> FALSE, fetched |-> <<>>, pending |-> {}, checked |-> {},
     backfills |-> backfills]

tracker == <<onchain_orders, order_handlers, query>>
chain == <<order_log, order_fills, undelivered>>

\* web3.eth.defaultAccount, and another account trading on the same contract.
defaultAccount == "me"
otherAccount == "other"

Amounts == 0 .. MaxAmount

(***************************************************************************)
(* The exchange contract and the chain client.                             *)
(***************************************************************************)
\* The arguments of the event the contract emits for order(...) sent by user.
OrderEvent(tokenGet, amountGet, tokenGive, amountGive, expires, nonce, user) ==
    [tokenGet |-> tokenGet, amountGet |-> amountGet, tokenGive |-> tokenGive,
     amountGive |-> amountGive, expires |-> expires, nonce |-> nonce, user |-> user]

\* The contract's key of an order: the seven values every order call passes.
OrderKey(order) ==
    OrderEvent(order.token_get.address, order.amount_get.value,
               order.token_give.address, order.amount_give.value,
               order.expires, order.nonce, order.user.address)

\* contract.amountFilled(...): orderFills of the order, 0 when it has none.
ContractAmountFilled(fills, key) == IF key \in DOMAIN fills THEN fills[key] ELSE 0

\* The state of the chain after a mined order(...) transaction of `event.user`.
LogAfterOrder(event) == Append(order_log, event)

FillsAfterOrder(event) ==
    IF event \in DOMAIN order_fills THEN order_fills
    ELSE order_fills @@ (event :> 0)

UndeliveredAfterOrder ==
    IF order_handlers > 0 THEN undelivered \cup {Len(order_log) + 1} ELSE undelivered

\* Contract._transact(web3, log_message, func): calls func to submit the
\* transaction and waits for it.  "mined" yields a receipt, "failed" (reverted,
\* out of gas, rejected) yields None, "unreachable" (no RPC endpoint) raises.
\* A func whose arguments cannot be evaluated submits nothing.
TransactFates == {"mined", "failed", "unreachable"}

transact(func_evaluates, fate) ==
    IF ~func_evaluates
    THEN [outcome |-> IF fate = "unreachable" THEN "raised" ELSE "None", tx |-> 0]
    ELSE CASE fate = "mined"       -> [outcome |-> "receipt", tx |-> 1]
           [] fate = "failed"      -> [outcome |-> "None", tx |-> 1]
           [] fate = "unreachable" -> [outcome |-> "raised", tx |-> 1]

\* What one call of the client did: its name, whether an argument had a wrong
\* type, how it ended ("receipt", "value", "None", "raised"), the value it
\* returned, the order it put on the wire, and the requests it made.
Call(op, bad_args, outcome, value, sent, tx, rpc, sign, post) ==
    [op |-> op, bad_args |-> bad_args, outcome |-> outcome, value |-> value,
     sent |-> sent, tx |-> tx, rpc |-> rpc, sign |-> sign, post |-> post]

(***************************************************************************)
(* The on-chain order tracker.                                             *)
(***************************************************************************)
\* EtherDelta.amount_filled, for an order that has all seven fields
amount_filled(order) == Wad(ContractAmountFilled(order_fills, OrderKey(order)))

\* EtherDelta.past_order: the logged "Order" events, each as a LogOrder
past_order == [i \in 1 .. Len(order_log) |-> LogOrder(order_log[i])]

\* active_onchain_orders, first call: an empty set filled from the past events
DiscoveredOrders ==
    PySetAddAll(PySet(EmptyBag), [i \in 1 .. Len(past_order) |-> to_order(past_order[i])])

\* The removal loop comparing the filled amount with amount_give.
RemoveFilledByAmountGive(S) ==
    PySet([o \in {e \in BagToSet(S.items) : amount_filled(e) # e.amount_give}
              |-> S.items[o]])

\* active_onchain_orders, the removal loop: every order whose filled amount
\* equals its amount_get is removed.
RemoveFilled(S) ==
    PySet([o \in {e \in BagToSet(S.items) : amount_filled(e) # e.amount_get}
              |-> S.items[o]])

\* EtherDelta.active_onchain_orders
ActiveOnchainOrders ==
    LET first == onchain_orders = NoneVal
        known == IF first THEN DiscoveredOrders ELSE onchain_orders
        remaining == RemoveFilled(known)
    IN  /\ onchain_orders' = remaining
        /\ order_handlers' = IF first THEN order_handlers + 1 ELSE order_handlers
        /\ last_call' = Call("active_onchain_orders", FALSE, "value", PyList(remaining),
                             NoneVal, 0, PySetLen(known) + (IF first THEN 1 ELSE 0), 0, 0)
        /\ query' = QueryIdle(IF first THEN query.backfills + 1 ELSE query.backfills)
        /\ UNCHANGED <<order_log, order_fills, undelivered>>

\* The handler active_onchain_orders registers, run for one delivered event;
\* its record holds the order it added.
OrderEventDelivered(i) ==
    /\ i \in undelivered
    /\ onchain_orders' = PySetAdd(onchain_orders, to_order(LogOrder(order_log[i])))
    /\ undelivered' = undelivered \ {i}
    /\ last_call' = Call("on_order_handler", FALSE, "value",
                         to_order(LogOrder(order_log[i])), NoneVal, 0, 0, 0, 0)
    /\ UNCHANGED <<order_handlers, order_log, order_fills, query>>

(***************************************************************************)
(* active_onchain_orders line by line, for event delivery that runs on a   *)
(* thread of its own: the handler may run between any two of these steps.  *)
(***************************************************************************)
\* How a request to the node ends: with an answer, or with an error raised
\* to the caller when the endpoint cannot be reached.
RpcFates == {"answered", "unreachable"}

\* set.remove(x), for an x that is in the set
PySetRemove(S, x) == PySet(S.items (-) SetToBag({x}))

\* An exception leaves active_onchain_orders.
QueryRaised ==
    /\ last_call' = Call("active_onchain_orders", FALSE, "raised", NoneVal, NoneVal,
                         0, 0, 0, 0)
    /\ query' = QueryIdle(query.backfills)

\* The test for None, and on the first call the assignment of an empty set.
QueryStart ==
    /\ query.pc = "idle"
    /\ IF onchain_orders = NoneVal
       THEN /\ onchain_orders' = PySet(EmptyBag)
            /\ query' = [query EXCEPT !.pc = "subscribe", !.first = TRUE]
       ELSE /\ onchain_orders' = onchain_orders
            /\ query' = [query EXCEPT !.pc = "snapshot"]
    /\ UNCHANGED <<order_handlers, chain, last_call>>

\* self.on_order(lambda order: ...): the handler is registered
QuerySubscribe(fate) ==
    /\ query.pc = "subscribe"
    /\ IF fate = "answered"
       THEN /\ order_handlers' = order_handlers + 1
            /\ query' = [query EXCEPT !.pc = "fetch"]
            /\ UNCHANGED last_call
       ELSE QueryRaised /\ UNCHANGED order_handlers
    /\ UNCHANGED <<onchain_orders, chain>>

\* self.past_order(1000000): the events logged so far
QueryFetch(fate) ==
    /\ query.pc = "fetch"
    /\ IF fate = "answered"
       THEN query' = [query EXCEPT !.pc = "backfill", !.fetched = past_order]
            /\ UNCHANGED last_call
       ELSE QueryRaised
    /\ UNCHANGED <<onchain_orders, order_handlers, chain>>

\* The loop adding the order of every fetched event to the set.
QueryBackfill ==
    /\ query.pc = "backfill"
    /\ onchain_orders' =
           PySetAddAll(onchain_orders,
                       [i \in 1 .. Len(query.fetched) |-> to_order(query.fetched[i])])
    /\ query' = [query EXCEPT !.pc = "snapshot", !.fetched = <<>>,
                               !.backfills = @ + 1]
    /\ UNCHANGED <<order_handlers, chain, last_call>>

\* list(self._onchain_orders): the copy the removal loop runs over
QuerySnapshot ==
    /\ query.pc = "snapshot"
    /\ query' = [query EXCEPT !.pc = "prune", !.pending = BagToSet(onchain_orders.items)]
    /\ UNCHANGED <<onchain_orders, order_handlers, chain, last_call>>

\* One round of the removal loop: the filled amount of `order` is asked for,
\* and the order removed when it equals amount_get.
QueryPrune(order, fate) ==
    /\ query.pc = "prune"
    /\ order \in query.pending
    /\ IF fate = "answered"
       THEN /\ onchain_orders' =
                   IF amount_filled(order) = order.amount_get
                   THEN PySetRemove(onchain_orders, order)
                   ELSE onchain_orders
            /\ query' = [query EXCEPT !.pending = @ \ {order},
                                       !.checked = @ \cup {order}]
            /\ UNCHANGED last_call
       ELSE QueryRaised /\ UNCHANGED onchain_orders
    /\ UNCHANGED <<order_handlers, chain>>

\* return list(self._onchain_orders); the record also holds whether the call
\* was the first, and the orders whose filled amount it asked for.
QueryReturn ==
    /\ query.pc = "prune"
    /\ query.pending = {}
    /\ last_call' = Call("active_onchain_orders", FALSE, "value", PyList(onchain_orders),
                         NoneVal, 0,
                         Cardinality(query.checked) + (IF query.first THEN 1 ELSE 0), 0, 0)
                    @@ [first |-> query.first, checked |-> query.checked]
    /\ query' = QueryIdle(query.backfills)
    /\ UNCHANGED <<onchain_orders, order_handlers, chain>>

\* place_order_onchain without the update of the set: the order reaches the
\* set only with its event.
LocalInsertMissing(orders, outcome, onchain_order) == orders

\* place_order_onchain, the update of the set with the result tested for
\* None left out.
LocalInsertUnconditional(orders, outcome, onchain_order) ==
    IF orders # NoneVal THEN PySetAdd(orders, onchain_order) ELSE orders

\* place_order_onchain creating the set when no query has created it yet.
LocalInsertInitialising(orders, outcome, onchain_order) ==
    IF outcome # "None"
    THEN PySetAdd(IF orders = NoneVal THEN PySet(EmptyBag) ELSE orders, onchain_order)
    ELSE orders

\* place_order_onchain, the update of the set after the transaction
LocalInsert(orders, outcome, onchain_order) ==
    IF outcome # "None" /\ orders # NoneVal
    THEN PySetAdd(orders, onchain_order)
    ELSE orders

\* Whether the arguments of contract.order(...) can be evaluated.
OrderArgsEvaluate(token_get, amount_get, token_give, amount_give) ==
    /\ HasAttr(token_get, "address") /\ HasAttr(amount_get, "value")
    /\ HasAttr(token_give, "address") /\ HasAttr(amount_give, "value")

\* Whether the five arguments of a place_order call have the annotated types.
OrderArgsTyped(token_get, amount_get, token_give, amount_give) ==
    /\ IsInstance(token_get, {"Address"}) /\ IsInstance(amount_get, {"Wad"})
    /\ IsInstance(token_give, {"Address"}) /\ IsInstance(amount_give, {"Wad"})

\* EtherDelta.place_order_onchain
PlaceOrderOnchain(token_get, amount_get, token_give, amount_give, expires) ==
    \E nonce \in random_nonce, fate \in TransactFates :
        LET evaluates == OrderArgsEvaluate(token_get, amount_get, token_give, amount_give)
            result == transact(evaluates, fate)
            onchain_order == OnChainOrder(token_get, amount_get, token_give, amount_give,
                                          expires, nonce, Address(defaultAccount))
            event == OrderKey(onchain_order)
        IN  /\ result.outcome = "receipt" => Len(order_log) < MaxLog
            /\ IF result.outcome = "receipt"
               THEN /\ order_log' = LogAfterOrder(event)
                    /\ order_fills' = FillsAfterOrder(event)
                    /\ undelivered' = UndeliveredAfterOrder
               ELSE UNCHANGED <<order_log, order_fills, undelivered>>
            /\ onchain_orders' =
                   IF result.outcome = "raised" THEN onchain_orders
                   ELSE LocalInsert(onchain_orders, result.outcome, onchain_order)
            /\ last_call' = Call("place_order_onchain",
                                 ~OrderArgsTyped(token_get, amount_get, token_give, amount_give),
                                 result.outcome, NoneVal,
                                 IF result.tx > 0 THEN onchain_order ELSE NoneVal,
                                 result.tx, 0, 0, 0)
            /\ UNCHANGED <<order_handlers, query>>

(***************************************************************************)
(* Other accounts using the same contract.                                 *)
(***************************************************************************)
\* Another account places an order: the contract logs an "Order" event.
OtherPlacesOrder(amountGet) ==
    LET event == OrderEvent("TKN", amountGet, "ETH", 1, 100, NonceOne, otherAccount)
    IN  /\ Len(order_log) < MaxLog
        /\ order_log' = LogAfterOrder(event)
        /\ order_fills' = FillsAfterOrder(event)
        /\ undelivered' = UndeliveredAfterOrder
        /\ UNCHANGED <<onchain_orders, order_handlers, last_call, query>>

\* Another account trades `amount` against a placed order.
OtherTrades(key, amount) ==
    /\ key \in DOMAIN order_fills
    /\ amount >= 1 /\ order_fills[key] + amount <= key.amountGet
    /\ order_fills' = [order_fills EXCEPT ![key] = @ + amount]
    /\ UNCHANGED <<onchain_orders, order_handlers, order_log, undelivered, last_call, query>>

\* Another account cancels its own order: the contract marks it as filled.
OtherCancels(key) ==
    /\ key \in DOMAIN order_fills
    /\ key.user = otherAccount
    /\ order_fills[key] < key.amountGet
    /\ order_fills' = [order_fills EXCEPT ![key] = key.amountGet]
    /\ UNCHANGED <<onchain_orders, order_handlers, order_log, undelivered, last_call, query>>

(***************************************************************************)
(* The thin calls of the facade.  Each is given as the record of what the  *)
(* call does (Call), with the order it was given where it takes one; the   *)
(* actions below apply a mined transaction to the contract.                *)
(***************************************************************************)
Raised(op, bad_args) == Call(op, bad_args, "raised", NoneVal, NoneVal, 0, 0, 0, 0)

Transacted(op, func_evaluates, fate) ==
    LET result == transact(func_evaluates, fate)
    IN  Call(op, FALSE, result.outcome, NoneVal, NoneVal, result.tx, 0, 0, 0)

\* EtherDelta.deposit submitting the transaction again when the first failed.
deposit_resubmitting(amount, fate) ==
    IF ~IsInstance(amount, {"Wad"}) THEN Raised("deposit", TRUE)
    ELSE LET first == transact(TRUE, fate)
             again == transact(TRUE, fate)
         IN  IF first.outcome = "None"
             THEN Call("deposit", FALSE, again.outcome, NoneVal, NoneVal,
                       first.tx + again.tx, 0, 0, 0)
             ELSE Call("deposit", FALSE, first.outcome, NoneVal, NoneVal, first.tx, 0, 0, 0)

\* EtherDelta.deposit
deposit(amount, fate) ==
    IF ~IsInstance(amount, {"Wad"}) THEN Raised("deposit", TRUE)
    ELSE Transacted("deposit", TRUE, fate)

\* EtherDelta.withdraw
withdraw(amount, fate) ==
    IF ~IsInstance(amount, {"Wad"}) THEN Raised("withdraw", TRUE)
    ELSE Transacted("withdraw", TRUE, fate)

\* EtherDelta.deposit_token
deposit_token(token, amount, fate) ==
    IF ~IsInstance(token, {"Address"}) \/ ~IsInstance(amount, {"Wad"})
    THEN Raised("deposit_token", TRUE)
    ELSE Transacted("deposit_token", TRUE, fate)

\* EtherDelta.withdraw_token
withdraw_token(token, amount, fate) ==
    IF ~IsInstance(token, {"Address"}) \/ ~IsInstance(amount, {"Wad"})
    THEN Raised("withdraw_token", TRUE)
    ELSE Transacted("withdraw_token", TRUE, fate)

\* EtherDelta.balance_of_token: one read-only call; the balance itself is not modelled
balance_of_token(token, user) ==
    IF ~IsInstance(token, {"Address"}) \/ ~IsInstance(user, {"Address"})
    THEN Raised("balance_of_token", TRUE)
    ELSE Call("balance_of_token", FALSE, "value", NoneVal, NoneVal, 0, 1, 0, 0)

\* The classes an argument annotated Order may have.
OrderClasses == {"Order", "OnChainOrder", "OffChainOrder"}

\* Whether order.<field>.<attr> can be read.
HasField(order, field, attr) == HasAttr(order, field) /\ HasAttr(order[field], attr)

\* Whether the order arguments of a contract call that passes the order's
\* user can be evaluated: the five common fields, the nonce and user.address.
OrderCallEvaluates(order) ==
    /\ HasField(order, "token_get", "address") /\ HasField(order, "amount_get", "value")
    /\ HasField(order, "token_give", "address") /\ HasField(order, "amount_give", "value")
    /\ HasAttr(order, "expires") /\ HasAttr(order, "nonce")
    /\ HasField(order, "user", "address")

\* The same for cancelOrder, which passes no user; a nonce of None is refused
\* when the call is encoded.
CancelCallEvaluates(order) ==
    /\ HasField(order, "token_get", "address") /\ HasField(order, "amount_get", "value")
    /\ HasField(order, "token_give", "address") /\ HasField(order, "amount_give", "value")
    /\ HasAttr(order, "expires") /\ HasAttr(order, "nonce") /\ order.nonce # NoneVal

\* The v, r, s passed as 0 and empty bytes whatever the order holds.
SignatureArgsAlwaysEmpty(order) == [v |-> 0, r |-> "", s |-> ""]

\* The v, r, s passed for an order: its own, or 0 and empty bytes.
SignatureArgs(order) ==
    [v |-> IF HasAttr(order, "v") THEN order.v ELSE 0,
     r |-> IF HasAttr(order, "r") THEN order.r ELSE "",
     s |-> IF HasAttr(order, "s") THEN order.s ELSE ""]

\* The contract call an order-taking method makes: the order's key and signature.
OrderCall(order) == [key |-> OrderKey(order), signature |-> SignatureArgs(order)]

\* EtherDelta.amount_available: the contract's availableVolume is at most what
\* is left of amount_get; the maker's balance is not modelled.
amount_available(order) ==
    IF ~OrderCallEvaluates(order)
    THEN Raised("amount_available", ~IsInstance(order, OrderClasses))
    ELSE Call("amount_available", ~IsInstance(order, OrderClasses), "value",
              Wad(order.amount_get.value - ContractAmountFilled(order_fills, OrderKey(order))),
              OrderCall(order), 0, 1, 0, 0) @@ [order |-> order]

\* EtherDelta.amount_filled, as a call of the facade
amount_filled_call(order) ==
    IF ~OrderCallEvaluates(order)
    THEN Raised("amount_filled", ~IsInstance(order, OrderClasses))
    ELSE Call("amount_filled", ~IsInstance(order, OrderClasses), "value",
              amount_filled(order), OrderCall(order), 0, 1, 0, 0) @@ [order |-> order]

\* Whether the contract accepts trade(order, amount): the order was placed and
\* has that much left.  Balances and expiry are not modelled.
ContractCanTrade(order, amount) ==
    /\ OrderKey(order) \in DOMAIN order_fills
    /\ order_fills[OrderKey(order)] + amount.value <= order.amount_get.value

\* EtherDelta.trade
trade(order, amount, fate) ==
    IF ~IsInstance(order, OrderClasses) \/ ~IsInstance(amount, {"Wad"})
    THEN Raised("trade", TRUE)
    ELSE LET result == transact(OrderCallEvaluates(order), fate)
         IN  Call("trade", FALSE, result.outcome, NoneVal,
                  IF result.tx > 0 THEN OrderCall(order) ELSE NoneVal,
                  result.tx, 0, 0, 0) @@ [order |-> order]

\* EtherDelta.can_trade
can_trade(order, amount) ==
    IF ~IsInstance(order, OrderClasses) \/ ~IsInstance(amount, {"Wad"})
    THEN Raised("can_trade", TRUE)
    ELSE IF ~OrderCallEvaluates(order) THEN Raised("can_trade", FALSE)
    ELSE Call("can_trade", FALSE, "value",
              [cls |-> "bool", bool |-> ContractCanTrade(order, amount)],
              OrderCall(order), 0, 1, 0, 0) @@ [order |-> order]

\* The key cancelOrder computes: the order's fields with the sender as user.
CancelKey(order) ==
    OrderEvent(order.token_get.address, order.amount_get.value,
               order.token_give.address, order.amount_give.value,
               order.expires, order.nonce, defaultAccount)

\* EtherDelta.cancel_order
cancel_order(order, fate) ==
    IF ~IsInstance(order, OrderClasses) THEN Raised("cancel_order", TRUE)
    ELSE LET result == transact(CancelCallEvaluates(order), fate)
         IN  Call("cancel_order", FALSE, result.outcome, NoneVal,
                  IF result.tx > 0
                  THEN [key |-> CancelKey(order), signature |-> SignatureArgs(order)]
                  ELSE NoneVal,
                  result.tx, 0, 0, 0) @@ [order |-> order]

(***************************************************************************)
(* Off-chain orders: hashing, signing and the relay.                       *)
(***************************************************************************)
\* The address of the exchange contract (self.address).
contractAddress == Address("EXCHANGE")

\* The seven values hashed, in the order they are encoded in.
order_message(token_get, amount_get, token_give, amount_give, expires, nonce) ==
    <<contractAddress.address, token_get.address, amount_get.value,
      token_give.address, amount_give.value, expires, nonce>>

\* Bytes of an ABI word, and of an address embedded in the message.
WordLen == 32
AddressLen == 20

\* The number an address string stands for (0x0 is plain ETH).
AddressValue(a) ==
    CASE a = "ETH"      -> 0
      [] a = "TKN"      -> 43981
      [] a = "EXCHANGE" -> 16702650
      [] a = "me"       -> 4660
      [] a = "other"    -> 22136
      [] OTHER          -> 1

\* n as `width` bytes, most significant first, for an n below 2^31: all but
\* the last four bytes are 0.
BigEndian(n, width) ==
    [i \in 1 .. width |-> IF width - i >= 4 THEN 0 ELSE (n \div (256 ^ (width - i))) % 256]

\* encode_address: the 32-byte ABI word of the address without its first 12 bytes
encode_address(address) ==
    SubSeq(BigEndian(AddressValue(address), WordLen), WordLen - AddressLen + 1, WordLen)

\* encode_uint256
encode_uint256(value) == BigEndian(value, WordLen)

\* encode_uint256 of a nonce, which is kept as two 16-bit halves
encode_nonce(nonce) == BigEndian(nonce.hi, WordLen - 2) \o BigEndian(nonce.lo, 2)

\* The bytes hashed with the address of the maker appended to them.
canonical_message_with_maker(message) ==
    encode_address(message[1]) \o encode_address(message[2]) \o encode_uint256(message[3])
    \o encode_address(message[4]) \o encode_uint256(message[5])
    \o encode_uint256(message[6]) \o encode_nonce(message[7])
    \o encode_address(defaultAccount)

\* The bytes hashed: the concatenation handed to hashlib.sha256.
canonical_message(message) ==
    encode_address(message[1]) \o encode_address(message[2]) \o encode_uint256(message[3])
    \o encode_address(message[4]) \o encode_uint256(message[5])
    \o encode_uint256(message[6]) \o encode_nonce(message[7])

\* hashlib.sha256(message).digest(), kept symbolic
sha256(message) == [sha256 |-> message]

\* What the signer answers to eth_sign: a signature (r, s and v, as the
\* 65-byte result is sliced), or an error.
SignerReplies == {[kind |-> "signature", r |-> "sig_r", s |-> "sig_s", v |-> 27],
                  [kind |-> "error"]}

\* EtherDelta._eth_sign returning an empty signature when the signer fails.
eth_sign_lenient(account, data_hash, reply) ==
    IF reply.kind = "error"
    THEN [raised |-> FALSE, r |-> "", s |-> "", v |-> 0]
    ELSE [raised |-> FALSE, r |-> reply.r, s |-> reply.s, v |-> reply.v]

\* EtherDelta._eth_sign: request_blocking raises when the signer answers with
\* an error or cannot be reached.
eth_sign(account, data_hash, reply) ==
    IF reply.kind = "error"
    THEN [raised |-> TRUE]
    ELSE [raised |-> FALSE, r |-> reply.r, s |-> reply.s, v |-> reply.v]

\* What the relay does with a POST: a response with a status and a body that
\* contains "success" in double quotes, bare, or not at all; or no answer
\* within the timeout.
RelayReplies ==
    {[kind |-> "response", status |-> st, body |-> b] :
        st \in {200, 500}, b \in {"quoted_success", "bare_success", "error"}}
    \cup {[kind |-> "timeout"]}

\* requests.post(url, data, timeout=15): raises when the timeout expires.
requests_post(reply) ==
    IF reply.kind = "timeout" THEN [raised |-> TRUE]
    ELSE [raised |-> FALSE, status_code |-> reply.status, text |-> reply.body]

\* '"success"' in res.text
HasQuotedSuccess(text) == text = "quoted_success"

\* "success" in res.text
HasSuccess(text) == text \in {"quoted_success", "bare_success"}

\* The last line of place_order_offchain
offchain_result(off_chain_order, res) ==
    IF HasQuotedSuccess(res.text) THEN off_chain_order ELSE NoneVal

\* EtherDelta.place_order_offchain.  Its record also holds the values and the
\* bytes hashed, and what the signer and the relay answered once they were asked.
place_order_offchain(token_get, amount_get, token_give, amount_give, expires, nonce, signer, relay) ==
    LET op == "place_order_offchain"
        bad == ~OrderArgsTyped(token_get, amount_get, token_give, amount_give)
    IN  IF ~OrderArgsEvaluate(token_get, amount_get, token_give, amount_give)
        THEN Raised(op, bad)
        ELSE
        LET message == order_message(token_get, amount_get, token_give, amount_give,
                                     expires, nonce)
            payload == canonical_message(message)
            order_hash == sha256(payload)
            signed == eth_sign(defaultAccount, order_hash, signer)
            asked == [message |-> message, payload |-> payload, signer |-> signer.kind]
        IN  IF signed.raised
            THEN Call(op, bad, "raised", NoneVal, NoneVal, 0, 0, 1, 0) @@ asked
            ELSE
            LET off_chain_order ==
                    OffChainOrder(token_get, amount_get, token_give, amount_give, expires,
                                  nonce, Address(defaultAccount), signed.v, signed.r, signed.s)
                res == requests_post(relay)
                posted == asked @@ [response |-> res]
            IN  IF res.raised
                THEN Call(op, bad, "raised", NoneVal, off_chain_order, 0, 0, 1, 1) @@ posted
                ELSE LET value == offchain_result(off_chain_order, res)
                     IN  Call(op, bad, IF value = NoneVal THEN "None" ELSE "value",
                              value, off_chain_order, 0, 0, 1, 1) @@ posted

(***************************************************************************)
(* The calls as actions.                                                   *)
(***************************************************************************)
\* What the signer and the relay do during one place_order_offchain: the
\* relay is asked only when the signer signed.
OffchainReplies ==
    {<<signer, relay>> \in SignerReplies \X RelayReplies :
        signer.kind = "error" => relay.kind = "timeout"}

\* The same with a relay that accepts whatever a signer has signed.
AcceptedReplies ==
    {replies \in OffchainReplies :
        replies[1].kind = "signature"
            => (replies[2].kind = "response" /\ replies[2].status = 200
                   /\ replies[2].body = "quoted_success")}

\* EtherDelta.place_order_offchain, met by one of the `answers` of the signer
\* and the relay.
PlaceOrderOffchain(token_get, amount_get, token_give, amount_give, expires, answers) ==
    \E nonce \in random_nonce, replies \in answers :
        /\ last_call' = place_order_offchain(token_get, amount_get, token_give, amount_give,
                                             expires, nonce, replies[1], replies[2])
        /\ UNCHANGED <<tracker, chain>>

Deposit(amount) ==
    \E fate \in TransactFates :
        last_call' = deposit(amount, fate) /\ UNCHANGED <<tracker, chain>>

Withdraw(amount) ==
    \E fate \in TransactFates :
        last_call' = withdraw(amount, fate) /\ UNCHANGED <<tracker, chain>>

DepositToken(token, amount) ==
    \E fate \in TransactFates :
        last_call' = deposit_token(token, amount, fate) /\ UNCHANGED <<tracker, chain>>

WithdrawToken(token, amount) ==
    \E fate \in TransactFates :
        last_call' = withdraw_token(token, amount, fate) /\ UNCHANGED <<tracker, chain>>

BalanceOfToken(token, user) ==
    last_call' = balance_of_token(token, user) /\ UNCHANGED <<tracker, chain>>

AmountAvailable(order) ==
    last_call' = amount_available(order) /\ UNCHANGED <<tracker, chain>>

AmountFilled(order) ==
    last_call' = amount_filled_call(order) /\ UNCHANGED <<tracker, chain>>

CanTrade(order, amount) ==
    last_call' = can_trade(order, amount) /\ UNCHANGED <<tracker, chain>>

Trade(order, amount) ==
    \E fate \in TransactFates :
        LET call == trade(order, amount, fate)
        IN  /\ call.outcome = "receipt" => ContractCanTrade(order, amount)
            /\ last_call' = call
            /\ order_fills' =
                   IF call.outcome = "receipt"
                   THEN [order_fills EXCEPT ![OrderKey(order)] = @ + amount.value]
                   ELSE order_fills
            /\ UNCHANGED <<tracker, order_log, undelivered>>

CancelOrder(order) ==
    \E fate \in TransactFates :
        LET call == cancel_order(order, fate)
        IN  /\ call.outcome = "receipt" => CancelKey(order) \in DOMAIN order_fills
            /\ last_call' = call
            /\ order_fills' =
                   IF call.outcome = "receipt"
                   THEN [order_fills EXCEPT ![CancelKey(order)] = order.amount_get.value]
                   ELSE order_fills
            /\ UNCHANGED <<tracker, order_log, undelivered>>

(***************************************************************************)
(* Arguments the calls are made with, well typed and not.                  *)
(***************************************************************************)
\* (token_get, amount_get) of the place_order calls; token_give is ETH,
\* amount_give 1 and expires block 100 throughout.
PlaceArgs ==
    {<<Address("TKN"), Wad(a)>> : a \in Amounts}
    \cup {<<PyStr("TKN"), Wad(1)>>, <<Address("TKN"), PyInt(1)>>}

\* The same for place_order_offchain, which no amount changes the course of.
OffchainArgs ==
    {<<Address("TKN"), Wad(1)>>, <<PyStr("TKN"), Wad(1)>>, <<Address("TKN"), PyInt(1)>>}

TokenArgs == {Address("TKN"), PyStr("TKN")}

AmountArgs == {Wad(1), PyInt(1)}

\* Orders a caller holds: the on-chain orders of the log, a signed off-chain
\* order, a LogOrder taken from an event, a bare Order, and a number.
SampleEvent == OrderEvent("TKN", 1, "ETH", 1, 100, NonceOne, otherAccount)

OrderArgs ==
    {to_order(LogOrder(order_log[i])) : i \in 1 .. Len(order_log)}
    \cup {OffChainOrder(Address("TKN"), Wad(1), Address("ETH"), Wad(1), 100, NonceOne,
                        Address(otherAccount), 27, "sig_r", "sig_s"),
          LogOrder(SampleEvent),
          Order(Address("TKN"), Wad(1), Address("ETH"), Wad(1), 100),
          PyInt(1)}

Init ==
    /\ onchain_orders = NoneVal
    /\ order_handlers = 0
    /\ order_log = <<>>
    /\ order_fills = <<>>
    /\ undelivered = {}
    /\ last_call = Call("__init__", FALSE, "value", NoneVal, NoneVal, 0, 0, 0, 0)
    /\ query = QueryIdle(0)

\* The tracker, both ways of placing an order, and the contract with another
\* account active on it.
Next ==
    \/ ActiveOnchainOrders
    \/ \E i \in undelivered : OrderEventDelivered(i)
    \/ \E args \in PlaceArgs : PlaceOrderOnchain(args[1], args[2], Address("ETH"), Wad(1), 100)
    \/ \E args \in OffchainArgs :
           PlaceOrderOffchain(args[1], args[2], Address("ETH"), Wad(1), 100, AcceptedReplies)
    \/ \E a \in Amounts : OtherPlacesOrder(a)
    \/ \E key \in DOMAIN order_fills, amount \in 1 .. MaxAmount : OtherTrades(key, amount)
    \/ \E key \in DOMAIN order_fills : OtherCancels(key)

Spec == Init /\ [][Next]_vars

\* The calls of the facade that take arguments, made by the one local account.
FacadeNext ==
    \/ \E args \in PlaceArgs : PlaceOrderOnchain(args[1], args[2], Address("ETH"), Wad(1), 100)
    \/ \E args \in OffchainArgs :
           PlaceOrderOffchain(args[1], args[2], Address("ETH"), Wad(1), 100, OffchainReplies)
    \/ \E amount \in AmountArgs : Deposit(amount)
    \/ \E amount \in AmountArgs : Withdraw(amount)
    \/ \E token \in TokenArgs, amount \in AmountArgs : DepositToken(token, amount)
    \/ \E token \in TokenArgs, amount \in AmountArgs : WithdrawToken(token, amount)
    \/ \E token \in TokenArgs : BalanceOfToken(token, Address(defaultAccount))
    \/ \E order \in OrderArgs : AmountAvailable(order)
    \/ \E order \in OrderArgs : AmountFilled(order)
    \/ \E order \in OrderArgs, amount \in AmountArgs : CanTrade(order, amount)
    \/ \E order \in OrderArgs, amount \in AmountArgs : Trade(order, amount)
    \/ \E order \in OrderArgs : CancelOrder(order)

FacadeSpec == Init /\ [][FacadeNext]_vars

\* The tracker with events delivered on a thread of their own: the steps of a
\* query interleave with the handler and with the other accounts, while the
\* caller places orders only between its queries.
ConcurrentNext ==
    \/ QueryStart
    \/ \E fate \in RpcFates : QuerySubscribe(fate)
    \/ \E fate \in RpcFates : QueryFetch(fate)
    \/ QueryBackfill
    \/ QuerySnapshot
    \/ \E order \in query.pending, fate \in RpcFates : QueryPrune(order, fate)
    \/ QueryReturn
    \/ \E i \in undelivered : OrderEventDelivered(i)
    \/ \E a \in Amounts :
           query.pc = "idle" /\ PlaceOrderOnchain(Address("TKN"), Wad(a), Address("ETH"), Wad(1), 100)
    \/ \E a \in Amounts : OtherPlacesOrder(a)
    \/ \E key \in DOMAIN order_fills, amount \in 1 .. MaxAmount : OtherTrades(key, amount)
    \/ \E key \in DOMAIN order_fills : OtherCancels(key)

ConcurrentSpec == Init /\ [][ConcurrentNext]_vars

(***************************************************************************)
(* The order values on their own: a set holding one on-chain order, and a  *)
(* second order compared with it.                                          *)
(***************************************************************************)
OrderSample ==
    {OnChainOrder(Address(tg), Wad(ag), Address(tv), Wad(av), e, n, Address(u)) :
        tg \in {"ETH", "TKN"}, ag \in Amounts, tv \in {"ETH", "TKN"}, av \in Amounts,
        e \in {100, 101}, n \in {NonceOne, NonceMax}, u \in {defaultAccount, otherAccount}}

\* The on-chain orders, and a LogOrder with the fields of each.
ComparedSample == OrderSample \cup {[o EXCEPT !.cls = "LogOrder"] : o \in OrderSample}

OrderInit ==
    /\ onchain_orders \in {PySet(SetToBag({o})) : o \in OrderSample}
    /\ order_handlers = 0
    /\ order_log = <<>>
    /\ order_fills = <<>>
    /\ undelivered = {}
    /\ last_call = Call("__init__", FALSE, "value", NoneVal, NoneVal, 0, 0, 0, 0)
    /\ query = QueryIdle(0)

\* self == other and hash(self) == hash(other), for the order of the set as
\* self; the record holds `other` as the order sent.
CompareOrders(other) ==
    /\ last_call.op = "__init__"
    /\ \E self \in BagToSet(onchain_orders.items) :
           last_call' = Call("OnChainOrder.__eq__", FALSE, "value",
                             [cls |-> "bool", bool |-> OnChainOrderEq(self, other),
                              same_hash |-> OnChainOrderHash(self) = OnChainOrderHash(other)],
                             other, 0, 0, 0, 0)
    /\ UNCHANGED <<tracker, chain>>

OrderNext == \E other \in ComparedSample : CompareOrders(other)

OrderSpec == OrderInit /\ [][OrderNext]_vars

(***************************************************************************)
(* Properties.                                                             *)
(***************************************************************************)
Tracked(order) == onchain_orders # NoneVal /\ BagIn(order, onchain_orders.items)

\* The set the removal loop of a query started in this state runs over.
TrackedAtQuery == IF onchain_orders = NoneVal THEN DiscoveredOrders ELSE onchain_orders

\* A step that is a call of active_onchain_orders.
QueryStep ==
    /\ last_call'.op = "active_onchain_orders"
    /\ last_call' # last_call \/ onchain_orders' # onchain_orders

\* A step that is a call of place_order_onchain whose transaction was mined.
PlacedStep ==
    /\ last_call'.op = "place_order_onchain" /\ last_call'.outcome = "receipt"
    /\ Len(order_log') = Len(order_log) + 1

\* C1: a query removes from the tracked set, and leaves out of its result,
\* every tracked order whose filled amount equals its amount_get, and keeps
\* and returns every tracked order whose filled amount is strictly less.
C1_TrackerPruning ==
    [][QueryStep =>
        \A o \in BagToSet(TrackedAtQuery.items) :
            /\ amount_filled(o) = o.amount_get =>
                   /\ ~BagIn(o, onchain_orders'.items)
                   /\ ~BagIn(o, last_call'.value.items)
            /\ amount_filled(o).value < o.amount_get.value =>
                   /\ BagIn(o, onchain_orders'.items)
                   /\ BagIn(o, last_call'.value.items)]_vars

\* C1 happens: after a query, an order of the local account that was placed
\* while the set existed, and has since been filled up to its amount_get > 0,
\* is no longer tracked.
C1_Witness ==
    /\ last_call.op = "active_onchain_orders"
    /\ \E i \in 1 .. Len(order_log) :
           /\ order_log[i].user = defaultAccount
           /\ order_log[i].amountGet > 0
           /\ order_fills[order_log[i]] = order_log[i].amountGet
           /\ i \in undelivered
           /\ ~Tracked(to_order(LogOrder(order_log[i])))

\* C2 as claimed: a query that directly follows a successful
\* place_order_onchain, no event having been delivered in between, returns
\* the order placed.
C2_VisibleAlways ==
    [][(/\ last_call.op = "place_order_onchain"
        /\ last_call.outcome = "receipt"
        /\ QueryStep)
       => BagIn(last_call.sent, last_call'.value.items)]_vars

\* C2 as amended: such a query returns the order placed unless the contract
\* reports the order's filled amount as equal to its amount_get.
C2_VisibleUnlessFilled ==
    [][(/\ last_call.op = "place_order_onchain"
        /\ last_call.outcome = "receipt"
        /\ QueryStep
        /\ amount_filled(last_call.sent) # last_call.sent.amount_get)
       => BagIn(last_call.sent, last_call'.value.items)]_vars

\* C2 happens: a query has returned an order of the local account whose
\* event has not been delivered to the handler.
C2_Witness ==
    /\ last_call.op = "active_onchain_orders"
    /\ \E i \in undelivered :
           /\ order_log[i].user = defaultAccount
           /\ BagIn(to_order(LogOrder(order_log[i])), last_call.value.items)

\* Equality of all seven fields.
SameFields(a, b) ==
    /\ a.token_get = b.token_get /\ a.amount_get = b.amount_get
    /\ a.token_give = b.token_give /\ a.amount_give = b.amount_give
    /\ a.expires = b.expires /\ a.nonce = b.nonce /\ a.user = b.user

HoldsEqual(S, order) == \E e \in BagToSet(S.items) : SameFields(e, order)

\* C3: an insert of an order equal in all seven fields to a tracked one
\* leaves the size of the set unchanged, be it made by the handler or after
\* a mined place_order_onchain, and the set, the backfilled one included,
\* never holds two entries for one order.
C3_Idempotence ==
    [][/\ \A i \in undelivered \ undelivered' :
              HoldsEqual(onchain_orders, to_order(LogOrder(order_log[i])))
              => PySetLen(onchain_orders') = PySetLen(onchain_orders)
       /\ (PlacedStep /\ onchain_orders # NoneVal
               /\ HoldsEqual(onchain_orders, last_call'.sent))
              => PySetLen(onchain_orders') = PySetLen(onchain_orders)
       /\ onchain_orders' # NoneVal =>
              \A o \in BagToSet(onchain_orders'.items) :
                  Cardinality({e \in BagToSet(onchain_orders'.items) : SameFields(e, o)})
                      * CopiesIn(o, onchain_orders'.items) = 1]_vars

\* C3 happens: the handler has just been given the event of an order of the
\* local account that the set received when it was placed (its event was
\* awaiting delivery, and it is not filled, so no query has removed it), and
\* the set holds it once.
C3_Witness ==
    /\ last_call.op = "on_order_handler"
    /\ last_call.value.user = Address(defaultAccount)
    /\ amount_filled(last_call.value).value < last_call.value.amount_get.value
    /\ CopiesIn(last_call.value, onchain_orders.items) = 1
    /\ PySetLen(onchain_orders) = 1

\* C4: a place_order_onchain that returns None (its transaction failed)
\* leaves the tracked set, and the contract's log, as they were.
C4_FailedPlaceKeepsSet ==
    [][(/\ last_call'.op = "place_order_onchain" /\ last_call'.outcome = "None"
        /\ last_call' # last_call \/ onchain_orders' # onchain_orders)
       => /\ onchain_orders' = onchain_orders
          /\ order_log' = order_log]_vars

\* C4 happens: with the set initialised, a place_order_onchain has submitted
\* its transaction and returned None.
C4_Witness ==
    /\ last_call.op = "place_order_onchain"
    /\ last_call.outcome = "None"
    /\ last_call.tx = 1
    /\ onchain_orders # NoneVal

\* The response the relay gave to the last place_order_offchain, if it posted.
Posted == last_call.op = "place_order_offchain" /\ last_call.post > 0

\* C5 as claimed: place_order_offchain returns the order only when the body
\* of the relay's response contains "success", and for any other response, a
\* status outside 2xx, or a timeout it returns None and does not raise.
C5_RelayFailureYieldsNone ==
    Posted =>
        /\ last_call.outcome = "value" =>
               /\ ~last_call.response.raised
               /\ HasSuccess(last_call.response.text)
               /\ last_call.value = last_call.sent
        /\ (\/ last_call.response.raised
            \/ last_call.response.status_code \notin 200 .. 299
            \/ ~HasSuccess(last_call.response.text))
               => last_call.outcome = "None"

\* C6: when the signer answers eth_sign with an error, place_order_offchain
\* raises, returns no order, and posts nothing to the relay.
C6_SigningFailurePropagates ==
    (/\ last_call.op = "place_order_offchain"
     /\ last_call.sign > 0
     /\ last_call.signer = "error")
    => /\ last_call.outcome = "raised"
       /\ last_call.value = NoneVal
       /\ last_call.post = 0

\* C6 happens: a place_order_offchain asked the signer and got an error.
C6_Witness ==
    /\ last_call.op = "place_order_offchain"
    /\ last_call.sign = 1
    /\ last_call.signer = "error"

\* C7 as claimed: a call given an argument of a wrong type makes no contract
\* call, transaction, signing request or relay POST, and yields no result.
C7_WrongTypesRejected ==
    last_call.bad_args =>
        /\ last_call.outcome \notin {"value", "receipt"}
        /\ last_call.tx = 0 /\ last_call.rpc = 0
        /\ last_call.sign = 0 /\ last_call.post = 0

\* A nonce within 1 .. 2^32 - 1.
NonceInRange(n) ==
    /\ n.hi \in 0 .. HalfWord - 1
    /\ n.lo \in 0 .. HalfWord - 1
    /\ n.hi > 0 \/ n.lo >= 1

\* C8: the nonce sent in the transaction of place_order_onchain, the nonce
\* place_order_offchain hashes and posts, and the nonce of every order of
\* the local account in the tracked set are within 1 .. 2^32 - 1.
C8_NonceRange ==
    /\ (last_call.op = "place_order_onchain" /\ last_call.sent # NoneVal)
           => NonceInRange(last_call.sent.nonce)
    /\ (last_call.op = "place_order_offchain" /\ last_call.sign > 0)
           => NonceInRange(last_call.message[7])
    /\ Posted => NonceInRange(last_call.sent.nonce)
    /\ onchain_orders # NoneVal =>
           \A o \in BagToSet(onchain_orders.items) :
               o.user = Address(defaultAccount) => NonceInRange(o.nonce)

\* C8 happens: the set holds an order of the local account with nonce
\* 2^32 - 1 whose event has not been delivered, and the last call posted an
\* off-chain order to the relay.
C8_Witness ==
    /\ Posted
    /\ \E i \in undelivered :
           /\ order_log[i].user = defaultAccount
           /\ order_log[i].nonce = NonceMax
           /\ Tracked(to_order(LogOrder(order_log[i])))

\* C9: no call submits more than one transaction, asks the signer more than
\* once, or posts to the relay more than once.
C9_NoRetry ==
    /\ last_call.tx <= 1
    /\ last_call.sign <= 1
    /\ last_call.post <= 1

\* C9 happens: a deposit has submitted its transaction, which failed.
C9_Witness ==
    /\ last_call.op = "deposit"
    /\ last_call.outcome = "None"
    /\ last_call.tx = 1

\* The order compared with the order of the set by the last comparison.
Compared == last_call.op = "OnChainOrder.__eq__" /\ last_call.sent.cls = "OnChainOrder"

\* C10: two on-chain orders with all seven fields equal are equal and have
\* the same hash, and two that differ in a field are not equal.
C10_EqualityOverSevenFields ==
    Compared =>
        \A self \in BagToSet(onchain_orders.items) :
            /\ SameFields(self, last_call.sent) =>
                   last_call.value.bool /\ last_call.value.same_hash
            /\ ~SameFields(self, last_call.sent) => ~last_call.value.bool

\* C10 happens: two on-chain orders that differ in the user alone, and have
\* the same hash, were compared and found not equal.
C10_Witness ==
    /\ Compared
    /\ last_call.value.same_hash
    /\ ~last_call.value.bool
    /\ \E self \in BagToSet(onchain_orders.items) :
           /\ self.user # last_call.sent.user
           /\ SameFields([self EXCEPT !.user = last_call.sent.user], last_call.sent)

\* The number the first k of a run of bytes stand for, most significant byte
\* first, and the number the whole run stands for.
RECURSIVE BigEndianPrefix(_, _)
BigEndianPrefix(bytes, k) ==
    IF k = 0 THEN 0 ELSE BigEndianPrefix(bytes, k - 1) * 256 + bytes[k]

BigEndianValue(bytes) == BigEndianPrefix(bytes, Len(bytes))

\* A call of place_order_offchain that came to build its message.
BuiltMessage(call) == call.op = "place_order_offchain" /\ HasAttr(call, "payload")

\* Bytes `from` .. `from + len - 1` of the message of `call`.
MessageSlice(call, from, len) == SubSeq(call.payload, from, from + len - 1)

\* C11: the message place_order_offchain hashes is 188 bytes: the contract
\* address, token_get, amount_get, token_give, amount_give, expires and the
\* nonce, in that order, addresses as 20 bytes and numbers as 32 big-endian
\* bytes, with nothing after them; the values are those of the order posted;
\* and a call made with the seven values of the call before it, whatever the
\* signer, the relay and the tracked set did in either, hashes the same bytes.
C11_CanonicalMessage ==
    [][BuiltMessage(last_call') =>
        LET m == last_call'.message
        IN  /\ Len(last_call'.payload) = 3 * 20 + 4 * 32
            /\ m[1] = contractAddress.address
            /\ BigEndianValue(MessageSlice(last_call', 1, 20)) = AddressValue(m[1])
            /\ BigEndianValue(MessageSlice(last_call', 21, 20)) = AddressValue(m[2])
            /\ BigEndianValue(MessageSlice(last_call', 41, 32)) = m[3]
            /\ BigEndianValue(MessageSlice(last_call', 73, 20)) = AddressValue(m[4])
            /\ BigEndianValue(MessageSlice(last_call', 93, 32)) = m[5]
            /\ BigEndianValue(MessageSlice(last_call', 125, 32)) = m[6]
            /\ BigEndianValue(MessageSlice(last_call', 157, 30)) = m[7].hi
            /\ BigEndianValue(MessageSlice(last_call', 187, 2)) = m[7].lo
            /\ last_call'.post > 0 =>
                   m = <<contractAddress.address,
                         last_call'.sent.token_get.address, last_call'.sent.amount_get.value,
                         last_call'.sent.token_give.address, last_call'.sent.amount_give.value,
                         last_call'.sent.expires, last_call'.sent.nonce>>
            /\ (BuiltMessage(last_call) /\ last_call.message = m)
                   => last_call'.payload = last_call.payload]_vars

\* C11 happens: with an order in the tracked set, a place_order_offchain
\* hashed a message with the nonce 2^32 - 1 and the signer then failed.
C11_Witness ==
    /\ BuiltMessage(last_call)
    /\ last_call.message[7] = NonceMax
    /\ last_call.signer = "error"
    /\ onchain_orders # NoneVal /\ PySetLen(onchain_orders) > 0

\* The order of the i-th logged event, and whether the contract reports it
\* as filled up to its amount_get, in the state a step leads to.
LoggedOrder(i) == to_order(LogOrder(order_log'[i]))

LoggedFilled(i) ==
    ContractAmountFilled(order_fills', order_log'[i]) = order_log'[i].amountGet

\* The first query is over its backfill, or over altogether.
BackfillBehind == onchain_orders' # NoneVal /\ query'.pc \notin {"subscribe", "fetch", "backfill"}

\* C12 as claimed: once the first query is past its backfill, every logged
\* event has had its order added to the tracked set or is still to be given
\* to the handler (an order not filled is never removed, so it is in the set
\* unless its event awaits delivery); and a first query that returns with
\* one event logged before it, and nothing filled, returns exactly one order.
C12_NoMissedEvents ==
    [][/\ BackfillBehind =>
              \A i \in 1 .. Len(order_log') :
                  ~LoggedFilled(i) =>
                      \/ BagIn(LoggedOrder(i), onchain_orders'.items)
                      \/ i \in undelivered'
       /\ (/\ query.pc = "prune" /\ query'.pc = "idle" /\ query.first
           /\ last_call'.outcome = "value"
           /\ Len(order_log') = 1 /\ undelivered' = {} /\ ~LoggedFilled(1))
              => PySetLen(last_call'.value) = 1]_vars

\* A step in which a first query returns its result.
FirstQueryReturns ==
    /\ query.pc = "prune" /\ query'.pc = "idle" /\ query.first
    /\ last_call'.op = "active_onchain_orders" /\ last_call'.outcome = "value"

\* The set is created by the first step of a query and by nothing else, and
\* once created it stays; handlers and backfills are never undone.
OneWayLifecycle ==
    /\ (onchain_orders = NoneVal /\ onchain_orders' # NoneVal)
           => (query.pc = "idle" /\ query'.pc = "subscribe" /\ query'.first)
    /\ onchain_orders # NoneVal => onchain_orders' # NoneVal
    /\ order_handlers' >= order_handlers /\ query'.backfills >= query.backfills
    /\ order_handlers' <= 1 /\ query'.backfills <= 1

HandlerInserts == undelivered' # undelivered /\ undelivered' \subseteq undelivered
                      /\ onchain_orders' # onchain_orders

\* C14 as claimed: the handler adds nothing to the set between the copy the
\* removal loop runs over and the making of the result, and every order of a
\* result had its filled amount asked for by the query that returns it.
C14_QueryExcludesHandler ==
    [][/\ HandlerInserts => query.pc # "prune"
       /\ (query.pc = "prune" /\ query'.pc = "idle" /\ last_call'.outcome = "value")
              => \A o \in BagToSet(last_call'.value.items) : o \in query.checked]_vars

\* The calls that pass v, r and s to the contract.
SignatureCalls == {"amount_available", "amount_filled", "trade", "can_trade", "cancel_order"}

\* C15: a call that hands an order to the contract passes v = 0 and empty r
\* and s for an on-chain order, the stored v, r and s for an off-chain order,
\* and for both the order's own token_get, amount_get, token_give,
\* amount_give, expires and nonce, and its user where the call takes one.
C15_SignatureFieldsPassed ==
    (last_call.op \in SignatureCalls /\ last_call.sent # NoneVal) =>
        LET order == last_call.order
            passed == last_call.sent
        IN  /\ order.cls = "OnChainOrder" =>
                   (passed.signature.v = 0 /\ passed.signature.r = "" /\ passed.signature.s = "")
            /\ order.cls = "OffChainOrder" =>
                   /\ passed.signature.v = order.v
                   /\ passed.signature.r = order.r
                   /\ passed.signature.s = order.s
            /\ order.cls \in {"OnChainOrder", "OffChainOrder"} =>
                   /\ passed.key.tokenGet = order.token_get.address
                   /\ passed.key.amountGet = order.amount_get.value
                   /\ passed.key.tokenGive = order.token_give.address
                   /\ passed.key.amountGive = order.amount_give.value
                   /\ passed.key.expires = order.expires
                   /\ passed.key.nonce = order.nonce
                   /\ last_call.op # "cancel_order" => passed.key.user = order.user.address

\* C15 happens: a trade against an on-chain order was mined, the order
\* passed with v = 0.
C15_Witness ==
    /\ last_call.op = "trade" /\ last_call.outcome = "receipt"
    /\ last_call.order.cls = "OnChainOrder"
    /\ last_call.sent.signature.v = 0

====
